---- MODULE Spec2Model ----
(***************************************************************************)
(* Model of cmd/up.go: the "up" command of the dev tool.                    *)
(*                                                                         *)
(* Up runs registriesLogin, networksCreate, verifyContainerConfig and then *)
(* docker-compose "up -d" and, optionally, "logs -f".  The registry        *)
(* client, the docker network/container API, the compose parser and the    *)
(* docker-compose sub-process are the environment: each call to them is a   *)
(* step whose result is chosen by the environment, and every call is        *)
(* recorded with its arguments and result.  log.Fatal ends the process.     *)
(***************************************************************************)
EXTENDS Integers, Sequences, FiniteSets, TLC

\* ---------------------------------------------------------------- bounds
\* size of the input of one run: configured registries + compose files of
\* the project + services in those files
MaxInput == 5

\* ------------------------------------------------------- value universes
NetNames == {"x", "y"}
SvcNames == {"A", "B"}
\* the creation options configured for a network (config.Network)
DeclaredOpts(n) == IF n = "x" THEN "bridge" ELSE "overlay"
\* the empty string that docker.NetworkIDFromName returns for an unknown name
NoID == 0
\* identifier the runtime holds for a network that exists before the run
ExistingID(n) == IF n = "x" THEN 1 ELSE 2
\* identifier the runtime assigns to a network created during the run: new,
\* unlike every identifier it held before
FreshID(n) == ExistingID(n) + Cardinality(NetNames)

Range(s) == {s[i] : i \in DOMAIN s}
SeqsUpTo(S, n) == UNION {[1..k -> S] : k \in 0..n}

\* config.Registry: the fields registriesLogin reads
Registry == [Name : {"r"}, ContinueOnFailure : BOOLEAN]
\* a compose service: its name and the keys of its Networks map
ServiceConfig == [Name : SvcNames, Networks : SUBSET NetNames]
\* what compose.Parse can return for one file: at most n services, whose
\* names are unique within the file
ComposeConfigs(n) ==
    {c \in SeqsUpTo(ServiceConfig, n) :
        \A i, j \in DOMAIN c : c[i].Name = c[j].Name => i = j}

VARIABLES
    appConfig,          \* *config.Dev: Registries, Networks, ImagePrefix
    project,            \* *config.Project: Name, DockerComposeFilenames
    dockerNetworks,     \* the runtime's networks: name -> id, NoID if absent
    pc,                 \* position of the process
    regIdx,             \* index of the range loop in registriesLogin
    netTodo,            \* names the range loop of networksCreate still visits
    fileIdx,            \* index of the range loop in createNetworkServiceMap
    removeTodo,         \* names the range loop of verifyContainerConfig still visits
    networkIDMap,       \* result of networksCreate
    serviceNetworkMap,  \* map built by createNetworkServiceMap
    loginLog,           \* calls of registry.Login, in order
    queryCalls,         \* per name: results of docker.NetworkIDFromName
    createCalls,        \* per name: calls of docker.NetworkCreate
    parseLog,           \* calls of compose.Parse, in order
    removeCalls,        \* per name: calls of docker.RemoveContainerIfRequired
    composeLog          \* calls of runDockerCompose, in order

vars == <<appConfig, project, dockerNetworks, pc, regIdx,
          netTodo, fileIdx, removeTodo, networkIDMap, serviceNetworkMap,
          loginLog, queryCalls, createCalls, parseLog, removeCalls, composeLog>>

config == <<appConfig, project>>
loops == <<regIdx, netTodo, fileIdx, removeTodo>>
logs == <<loginLog, queryCalls, createCalls, parseLog, removeCalls, composeLog>>

EmptyMap == [n \in {} |-> NoID]

\* ------------------------------------------------------------------ Init
Init ==
    /\ appConfig \in
         [Registries : SeqsUpTo(Registry, MaxInput),
          Networks : {[n \in S |-> DeclaredOpts(n)] : S \in SUBSET NetNames},
          ImagePrefix : {"img"}]
    /\ project \in
         [Name : {"proj"},
          DockerComposeFilenames : {[i \in 1..k |-> i] : k \in 0..MaxInput}]
    /\ Len(appConfig.Registries) + Len(project.DockerComposeFilenames) <= MaxInput
    /\ dockerNetworks \in
         {[n \in NetNames |-> IF n \in S THEN ExistingID(n) ELSE NoID] :
            S \in SUBSET DOMAIN appConfig.Networks}
    /\ pc = "registriesLogin"
    /\ regIdx = 1
    /\ netTodo = {}
    /\ fileIdx = 1
    /\ removeTodo = {}
    /\ networkIDMap = EmptyMap
    /\ serviceNetworkMap = [n \in {} |-> <<>>]
    /\ loginLog = <<>>
    /\ queryCalls = [n \in NetNames |-> <<>>]
    /\ createCalls = [n \in NetNames |-> <<>>]
    /\ parseLog = <<>>
    /\ removeCalls = [n \in NetNames |-> <<>>]
    /\ composeLog = <<>>

\* ------------------------------------------------------- registriesLogin
\* variant: every failed login is fatal, ContinueOnFailure is not consulted
LoginFatal_IgnoresFlag(err, r) == err

\* up.go:46-52: a failed login is fatal unless the registry tolerates it
LoginFatal(err, r) == err /\ ~r.ContinueOnFailure

\* one iteration of the loop: registry.Login and the handling of its error
RegistryLogin ==
    /\ pc = "registriesLogin"
    /\ regIdx <= Len(appConfig.Registries)
    /\ \E err \in BOOLEAN :
         LET r == appConfig.Registries[regIdx] IN
         /\ loginLog' = Append(loginLog, [registry |-> regIdx, err |-> err])
         /\ IF LoginFatal(err, r)
              THEN pc' = "fatal" /\ regIdx' = regIdx
              ELSE pc' = pc /\ regIdx' = regIdx + 1
    /\ UNCHANGED <<config, dockerNetworks, netTodo, fileIdx, removeTodo,
                   networkIDMap, serviceNetworkMap, queryCalls, createCalls,
                   parseLog, removeCalls, composeLog>>

\* the loop ends; Up calls networksCreate, whose range loop starts
RegistriesLoginReturn ==
    /\ pc = "registriesLogin"
    /\ regIdx > Len(appConfig.Registries)
    /\ pc' = "networksCreate"
    /\ netTodo' = DOMAIN appConfig.Networks
    /\ networkIDMap' = EmptyMap
    /\ UNCHANGED <<config, dockerNetworks, regIdx, fileIdx, removeTodo,
                   serviceNetworkMap, logs>>

\* -------------------------------------------------------- networksCreate
\* variant: the network is created whatever the query returned
NeedsCreate_Always(networkID) == TRUE

\* up.go:27: the network has to be created when the query found no id
NeedsCreate(networkID) == networkID = NoID

\* variant: the map keeps the (empty) id of the query, not the created one
StoredID_Queried(queried, created) == queried

\* up.go:28,36: the id that goes into the map for a network that was created
StoredID(queried, created) == created

\* up.go:28: the options handed to docker.NetworkCreate
CreateOpts(name) == appConfig.Networks[name]

\* variant: the loop does not move past the name it just handled
Visited_Stays(todo, name) == todo

\* up.go:20: the range loop visits each key once
Visited(todo, name) == todo \ {name}

\* one iteration of the loop for some remaining name (map order is random):
\* docker.NetworkIDFromName, then docker.NetworkCreate if the id is empty
NetworkEnsure ==
    /\ pc = "networksCreate"
    /\ \E name \in netTodo :
         \/ \* the existence query fails: log.Fatal
            /\ queryCalls' = [queryCalls EXCEPT ![name] =
                                Append(@, [id |-> NoID, err |-> TRUE])]
            /\ pc' = "fatal"
            /\ UNCHANGED <<dockerNetworks, netTodo, networkIDMap, createCalls>>
         \/ LET networkID == dockerNetworks[name] IN
            /\ queryCalls' = [queryCalls EXCEPT ![name] =
                                Append(@, [id |-> networkID, err |-> FALSE])]
            /\ IF NeedsCreate(networkID)
                 THEN \/ \* the creation fails: log.Fatal
                         /\ createCalls' = [createCalls EXCEPT ![name] =
                               Append(@, [opts |-> CreateOpts(name), id |-> NoID,
                                          err |-> TRUE])]
                         /\ pc' = "fatal"
                         /\ UNCHANGED <<dockerNetworks, netTodo, networkIDMap>>
                      \/ \* the runtime creates the network under a fresh id
                         /\ createCalls' = [createCalls EXCEPT ![name] =
                               Append(@, [opts |-> CreateOpts(name),
                                          id |-> FreshID(name), err |-> FALSE])]
                         /\ dockerNetworks' =
                              [dockerNetworks EXCEPT ![name] = FreshID(name)]
                         /\ networkIDMap' =
                              [n \in DOMAIN networkIDMap \cup {name} |->
                                 IF n = name THEN StoredID(networkID, FreshID(name))
                                 ELSE networkIDMap[n]]
                         /\ netTodo' = Visited(netTodo, name)
                         /\ pc' = pc
                 ELSE /\ networkIDMap' =
                           [n \in DOMAIN networkIDMap \cup {name} |->
                              IF n = name THEN networkID ELSE networkIDMap[n]]
                      /\ netTodo' = Visited(netTodo, name)
                      /\ pc' = pc
                      /\ UNCHANGED <<dockerNetworks, createCalls>>
    /\ UNCHANGED <<config, regIdx, fileIdx, removeTodo, serviceNetworkMap,
                   loginLog, parseLog, removeCalls, composeLog>>

\* ------------------------------------------------- verifyContainerConfig
\* variant: the early return on an empty map is missing
NothingToDo_Never(idMap) == FALSE

\* up.go:89: no external networks, nothing to do
NothingToDo(idMap) == DOMAIN idMap = {}

\* networksCreate returns; Up calls verifyContainerConfig, which returns at
\* once on an empty map and calls createNetworkServiceMap otherwise
NetworksCreateReturn ==
    /\ pc = "networksCreate"
    /\ netTodo = {}
    /\ IF NothingToDo(networkIDMap)
         THEN pc' = "composeUp"
         ELSE pc' = "createNetworkServiceMap"
    /\ fileIdx' = 1
    /\ serviceNetworkMap' = [n \in {} |-> <<>>]
    /\ UNCHANGED <<config, dockerNetworks, regIdx, netTodo, removeTodo,
                   networkIDMap, logs>>

\* ----------------------------------------------- createNetworkServiceMap
\* variant: every network a service names is recorded
IsExternal_Any(name, idMap) == TRUE

\* up.go:72: the comma-ok lookup of a service's network in the id map
IsExternal(name, idMap) == name \in DOMAIN idMap

\* up.go:71-75: one service; each of its networks that is in the id map
\* gets the service's name appended (absent keys start from the nil slice)
AddService(m, service, idMap) ==
    LET hit == {n \in service.Networks : IsExternal(n, idMap)} IN
    [n \in DOMAIN m \cup hit |->
        IF n \in hit
          THEN Append(IF n \in DOMAIN m THEN m[n] ELSE <<>>, service.Name)
          ELSE m[n]]

\* up.go:70-76: the services of one compose file, in order
RECURSIVE AddServices(_, _, _)
AddServices(m, services, idMap) ==
    IF services = <<>> THEN m
    ELSE AddServices(AddService(m, Head(services), idMap), Tail(services), idMap)

\* services in the compose files parsed so far, and how many more the
\* remaining files can hold within MaxInput
RECURSIVE SumLen(_)
SumLen(log) == IF log = <<>> THEN 0 ELSE Len(Head(log).services) + SumLen(Tail(log))
ServicesParsed == SumLen(parseLog)
ServicesLeft ==
    MaxInput - Len(appConfig.Registries) - Len(project.DockerComposeFilenames)
      - ServicesParsed

\* variant: a parse error is ignored
ParseFatal_Ignored(err) == FALSE

\* up.go:66-68: a parse error is fatal
ParseFatal(err) == err

\* one iteration of the loop over the compose files: compose.Parse, then
\* the services of the file
ParseComposeFile ==
    /\ pc = "createNetworkServiceMap"
    /\ fileIdx <= Len(project.DockerComposeFilenames)
    /\ LET composeFilename == project.DockerComposeFilenames[fileIdx] IN
       \E err \in BOOLEAN :
       \E composeConfig \in IF err THEN {<<>>} ELSE ComposeConfigs(ServicesLeft) :
          /\ parseLog' = Append(parseLog,
                [file |-> composeFilename, err |-> err, services |-> composeConfig])
          /\ IF ParseFatal(err)
               THEN /\ pc' = "fatal"
                    /\ UNCHANGED <<fileIdx, serviceNetworkMap>>
               ELSE /\ serviceNetworkMap' =
                         AddServices(serviceNetworkMap, composeConfig, networkIDMap)
                    /\ fileIdx' = fileIdx + 1
                    /\ pc' = pc
    /\ UNCHANGED <<config, dockerNetworks, regIdx, netTodo, removeTodo,
                   networkIDMap, loginLog, queryCalls, createCalls, removeCalls,
                   composeLog>>

\* variant: the removal check is skipped for every network
RemoveTargets_None(m) == {}

\* up.go:95: the networks verifyContainerConfig calls the removal check for
RemoveTargets(m) == DOMAIN m

\* createNetworkServiceMap returns its map; the range loop over it starts
CreateNetworkServiceMapReturn ==
    /\ pc = "createNetworkServiceMap"
    /\ fileIdx > Len(project.DockerComposeFilenames)
    /\ pc' = "removeContainers"
    /\ removeTodo' = RemoveTargets(serviceNetworkMap)
    /\ UNCHANGED <<config, dockerNetworks, regIdx, netTodo, fileIdx,
                   networkIDMap, serviceNetworkMap, logs>>

\* variant: the check gets the id the network had before the run
RemoveID_Stale(networkName) == ExistingID(networkName)

\* up.go:96: the id handed to docker.RemoveContainerIfRequired
RemoveID(networkName) == networkIDMap[networkName]

\* variant: an error of the removal check is ignored
RemoveFatal_Ignored(err) == FALSE

\* up.go:98-100: an error of the removal check is fatal
RemoveFatal(err) == err

\* one iteration of the loop: docker.RemoveContainerIfRequired for some
\* remaining network (map order is random); an error is fatal
RemoveContainerIfRequired ==
    /\ pc = "removeContainers"
    /\ \E networkName \in removeTodo : \E err \in BOOLEAN :
         /\ removeCalls' = [removeCalls EXCEPT ![networkName] =
               Append(@, [networkID |-> RemoveID(networkName),
                          services |-> serviceNetworkMap[networkName],
                          parsed |-> Len(parseLog),  \* parses made before this call
                          err |-> err])]
         /\ IF RemoveFatal(err)
              THEN pc' = "fatal" /\ removeTodo' = removeTodo
              ELSE pc' = pc /\ removeTodo' = removeTodo \ {networkName}
    /\ UNCHANGED <<config, dockerNetworks, regIdx, netTodo, fileIdx,
                   networkIDMap, serviceNetworkMap, loginLog, queryCalls,
                   createCalls, parseLog, composeLog>>

\* verifyContainerConfig returns to Up
VerifyContainerConfigReturn ==
    /\ pc = "removeContainers"
    /\ removeTodo = {}
    /\ pc' = "composeUp"
    /\ UNCHANGED <<config, dockerNetworks, loops, networkIDMap,
                   serviceNetworkMap, logs>>

\* ---------------------------------------------------- Up: docker-compose
\* Up reads its parameter tailLogs once, after "up" has returned (up.go:113):
\* the caller's value is drawn there.
\* up.go:111: the arguments of the "up" invocation
ComposeUpCall ==
    [project |-> appConfig.ImagePrefix, cmd |-> "up",
     composePaths |-> project.DockerComposeFilenames, args |-> <<"-d">>]

\* up.go:114: the arguments of the "logs" invocation
ComposeLogsCall ==
    [project |-> appConfig.ImagePrefix, cmd |-> "logs",
     composePaths |-> project.DockerComposeFilenames,
     args |-> <<"-f", project.Name>>]

\* runDockerCompose runs the orchestrator; the process either goes on or
\* ends with the orchestrator's exit status
RunDockerCompose(call, exits, next) ==
    /\ composeLog' = Append(composeLog, call)
    /\ pc' = IF exits THEN "exited" ELSE next

\* up.go:113: whether Up goes on to tail the logs
AfterUp(tailLogs) == IF tailLogs THEN "tailLogs" ELSE "done"

ComposeUp ==
    /\ pc = "composeUp"
    /\ \E exits, tailLogs \in BOOLEAN :
         RunDockerCompose(ComposeUpCall, exits, AfterUp(tailLogs))
    /\ UNCHANGED <<config, dockerNetworks, loops, networkIDMap,
                   serviceNetworkMap, loginLog, queryCalls, createCalls,
                   parseLog, removeCalls>>

TailLogs ==
    /\ pc = "tailLogs"
    /\ \E exits \in BOOLEAN : RunDockerCompose(ComposeLogsCall, exits, "done")
    /\ UNCHANGED <<config, dockerNetworks, loops, networkIDMap,
                   serviceNetworkMap, loginLog, queryCalls, createCalls,
                   parseLog, removeCalls>>

Next ==
    \/ RegistryLogin
    \/ RegistriesLoginReturn
    \/ NetworkEnsure
    \/ NetworksCreateReturn
    \/ ParseComposeFile
    \/ CreateNetworkServiceMapReturn
    \/ RemoveContainerIfRequired
    \/ VerifyContainerConfigReturn
    \/ ComposeUp
    \/ TailLogs

Spec == Init /\ [][Next]_vars

\* ================================================================ claims
Regs == appConfig.Registries
Declared == DOMAIN appConfig.Networks
Files == project.DockerComposeFilenames

\* what the call records say happened
ToleratedFailure(i) == loginLog[i].err /\ Regs[loginLog[i].registry].ContinueOnFailure
FatalLoginFailure(i) == loginLog[i].err /\ ~Regs[loginLog[i].registry].ContinueOnFailure
LoginFailed == \E i \in DOMAIN loginLog : FatalLoginFailure(i)
QueryFailed == \E n \in NetNames : \E i \in DOMAIN queryCalls[n] : queryCalls[n][i].err
CreateFailed == \E n \in NetNames : \E i \in DOMAIN createCalls[n] : createCalls[n][i].err
ParseFailed == \E i \in DOMAIN parseLog : parseLog[i].err
RemoveFailed == \E n \in NetNames : \E i \in DOMAIN removeCalls[n] : removeCalls[n][i].err
NetworkCalled == \E n \in NetNames : queryCalls[n] # <<>> \/ createCalls[n] # <<>>
RemoveCalled == \E n \in NetNames : removeCalls[n] # <<>>
UpCalls == {i \in DOMAIN composeLog : composeLog[i].cmd = "up"}
\* the process has left networksCreate by its return statement
NetworksCreateReturned ==
    \/ pc \in {"createNetworkServiceMap", "removeContainers", "composeUp",
               "tailLogs", "done", "exited"}
    \/ parseLog # <<>>
\* the process has left verifyContainerConfig by a return
VerifyReturned == pc \in {"composeUp", "tailLogs", "done", "exited"}
\* some service of the parsed files names network n
HasDependent(n) ==
    \E i \in DOMAIN parseLog : \E j \in DOMAIN parseLog[i].services :
        n \in parseLog[i].services[j].Networks

\* C1: the stages run in the order login, networks, reconcile, compose up,
\* tail logs, each starting only when the one before is complete, and a
\* failed fatal call halts the run: the process is dead, compose "up" was
\* not invoked and no call of a later stage was made.
C1_StageOrder ==
    /\ NetworkCalled => Len(loginLog) = Len(Regs) /\ ~LoginFailed
    /\ parseLog # <<>> =>
         /\ DOMAIN networkIDMap = Declared
         /\ \A n \in Declared : queryCalls[n] # <<>>
         /\ ~QueryFailed /\ ~CreateFailed
    /\ RemoveCalled => Len(parseLog) = Len(Files) /\ ~ParseFailed
    /\ composeLog # <<>> =>
         /\ composeLog[1].cmd = "up"
         /\ Len(loginLog) = Len(Regs)
         /\ \A n \in Declared : queryCalls[n] # <<>>
         /\ Declared # {} =>
              /\ Len(parseLog) = Len(Files)
              /\ \A n \in Declared : HasDependent(n) => removeCalls[n] # <<>>
    /\ Len(composeLog) > 1 => Len(composeLog) = 2 /\ composeLog[2].cmd = "logs"
    /\ (LoginFailed \/ QueryFailed \/ CreateFailed \/ ParseFailed \/ RemoveFailed) =>
         /\ pc = "fatal"
         /\ composeLog = <<>>
         /\ LoginFailed => ~NetworkCalled
         /\ (LoginFailed \/ QueryFailed \/ CreateFailed) => parseLog = <<>>
         /\ (LoginFailed \/ QueryFailed \/ CreateFailed \/ ParseFailed) => ~RemoveCalled

\* a run that made calls in all five stages and ended
C1_Witness ==
    /\ pc = "done"
    /\ loginLog # <<>> /\ NetworkCalled /\ parseLog # <<>> /\ RemoveCalled
    /\ Len(composeLog) = 2

\* C2 as stated: once a continue-on-failure registry has failed, the run is
\* not aborted in the login stage (the network stage is reached); a failed
\* registry without the flag aborts before any later call.
C2_Original ==
    /\ \A i \in DOMAIN loginLog :
         ToleratedFailure(i) => ~(pc = "fatal" /\ ~NetworkCalled)
    /\ LoginFailed =>
         pc = "fatal" /\ ~NetworkCalled /\ parseLog = <<>> /\ ~RemoveCalled
           /\ composeLog = <<>>

\* C2 amended: a failed login of a continue-on-failure registry does not
\* itself abort the run: the loop moves past it, and if the run is aborted
\* in the login stage it is by a later registry without the flag; a failed
\* login of a registry without the flag aborts the run at that call, before
\* any network query, network creation, parse, removal or compose call.
C2_LoginFailurePolicy ==
    /\ \A i \in DOMAIN loginLog :
         ToleratedFailure(i) =>
           /\ regIdx > i
           /\ pc = "fatal" =>
                \/ \E j \in DOMAIN loginLog : j > i /\ FatalLoginFailure(j)
                \/ NetworkCalled
    /\ \A i \in DOMAIN loginLog :
         FatalLoginFailure(i) =>
           /\ pc = "fatal"
           /\ i = Len(loginLog)
           /\ ~NetworkCalled /\ parseLog = <<>> /\ ~RemoveCalled
           /\ composeLog = <<>>

\* a tolerated failure after which the remaining registry was attempted and
\* the network stage was reached
C2_Witness ==
    /\ Len(loginLog) = 2
    /\ ToleratedFailure(1)
    /\ NetworkCalled

\* C3: a declared network that the query finds existing is never created,
\* and the map holds the identifier the query returned.
C3_ExistingReused ==
    \A n \in NetNames :
      (queryCalls[n] # <<>> /\ ~queryCalls[n][1].err /\ queryCalls[n][1].id # NoID) =>
        /\ createCalls[n] = <<>>
        /\ n \in DOMAIN networkIDMap
        /\ networkIDMap[n] = queryCalls[n][1].id
        /\ dockerNetworks[n] = queryCalls[n][1].id

\* networksCreate returned after finding a network that existed
C3_Witness ==
    /\ pc = "done"
    /\ \E n \in Declared : queryCalls[n] # <<>> /\ queryCalls[n][1].id = ExistingID(n)

\* C4: a declared network the query finds absent is created by exactly one
\* call, with its declared options, and the map holds the fresh identifier
\* that call returned; when networksCreate has returned, the map's keys are
\* exactly the declared networks.
C4_AbsentCreated ==
    /\ \A n \in NetNames :
         (queryCalls[n] # <<>> /\ ~queryCalls[n][1].err /\ queryCalls[n][1].id = NoID) =>
           /\ Len(createCalls[n]) = 1
           /\ createCalls[n][1].opts = appConfig.Networks[n]
           /\ ~createCalls[n][1].err =>
                /\ n \in DOMAIN networkIDMap
                /\ networkIDMap[n] = createCalls[n][1].id
                /\ networkIDMap[n] # NoID
                /\ \A m \in NetNames : networkIDMap[n] # ExistingID(m)
    /\ DOMAIN networkIDMap \subseteq Declared
    /\ NetworksCreateReturned => DOMAIN networkIDMap = Declared

\* networksCreate returned after creating one network and reusing another
C4_Witness ==
    /\ pc = "done"
    /\ \E n, m \in Declared :
         /\ createCalls[n] # <<>>
         /\ createCalls[m] = <<>>

\* all services of the files parsed so far: compose-file order, then the
\* order of the services within each file
RECURSIVE ParsedServices(_)
ParsedServices(log) ==
    IF log = <<>> THEN <<>> ELSE Head(log).services \o ParsedServices(Tail(log))

\* the names of the parsed services that reference network n, in that order
Dependents(n) ==
    LET Refers(service) == n \in service.Networks
        sel == SelectSeq(ParsedServices(parseLog), Refers)
    IN [i \in DOMAIN sel |-> sel[i].Name]

\* C5: the service-network map holds, under each network of the identity
\* map that some service references, the names of exactly the services
\* referencing it, in compose-file order then service order; no other key
\* exists, so undeclared networks and services on only undeclared networks
\* do not appear.
C5_ServiceNetworkMap ==
    /\ DOMAIN serviceNetworkMap =
         {n \in DOMAIN networkIDMap : Dependents(n) # <<>>}
    /\ \A n \in DOMAIN serviceNetworkMap : serviceNetworkMap[n] = Dependents(n)
    /\ DOMAIN serviceNetworkMap \subseteq Declared
    /\ \A i \in DOMAIN parseLog : \A j \in DOMAIN parseLog[i].services :
         LET service == parseLog[i].services[j] IN
         service.Networks \cap Declared = {} =>
           \A n \in DOMAIN serviceNetworkMap :
             \/ service.Name \notin Range(serviceNetworkMap[n])
             \/ \E k \in DOMAIN parseLog : \E l \in DOMAIN parseLog[k].services :
                  /\ parseLog[k].services[l].Name = service.Name
                  /\ n \in parseLog[k].services[l].Networks

\* two files were parsed, one network has two dependents, and a service on
\* an undeclared network was left out
C5_Witness ==
    /\ pc = "removeContainers"
    /\ Len(parseLog) = 2 /\ parseLog[1].services # <<>> /\ parseLog[2].services # <<>>
    /\ \E n \in DOMAIN serviceNetworkMap : Len(serviceNetworkMap[n]) = 2
    /\ \E n \in NetNames \ Declared : HasDependent(n)

\* C6: called with an empty identity map, verifyContainerConfig parses no
\* compose file and makes no removal call, and the run is at compose "up".
C6_EmptyMapNoOp ==
    (NetworksCreateReturned /\ DOMAIN networkIDMap = {}) =>
      /\ parseLog = <<>>
      /\ ~RemoveCalled
      /\ pc \in {"composeUp", "tailLogs", "done", "exited"}

\* a project with compose files and no declared network reached compose "up"
C6_Witness ==
    /\ Declared = {}
    /\ Len(Files) > 0
    /\ composeLog # <<>>
    /\ parseLog = <<>>

\* the end-to-end scenario: one declared network n, absent in the runtime;
\* one registry without continue-on-failure whose login succeeded; one
\* compose file, parsed into one service attached to n
EndToEnd(n) ==
    /\ Declared = {n}
    /\ Len(Regs) = 1 /\ ~Regs[1].ContinueOnFailure
    /\ loginLog = <<[registry |-> 1, err |-> FALSE]>>
    /\ queryCalls[n] = <<[id |-> NoID, err |-> FALSE]>>
    /\ Len(Files) = 1
    /\ Len(parseLog) = 1 /\ ~parseLog[1].err
    /\ Len(parseLog[1].services) = 1
    /\ n \in parseLog[1].services[1].Networks

\* the one compose "up" invocation, with the image prefix and the project's
\* compose files
UpInvokedOnce ==
    /\ Cardinality(UpCalls) = 1
    /\ composeLog[1] = [project |-> appConfig.ImagePrefix, cmd |-> "up",
                        composePaths |-> Files, args |-> <<"-d">>]

\* C7 as stated: in the end-to-end scenario, once compose "up" has been
\* invoked, the network was created by one call, the removal check was
\* skipped for it, and "up" was invoked once with the compose files and the
\* image prefix.
C7_Original ==
    \A n \in NetNames :
      (EndToEnd(n) /\ composeLog # <<>>) =>
        /\ Len(createCalls[n]) = 1
        /\ removeCalls[n] = <<>>
        /\ UpInvokedOnce

\* C7 amended: in the end-to-end scenario the network is created by one
\* call; the removal check is not skipped: once verifyContainerConfig has
\* returned it was invoked exactly once for the network, with the newly
\* created identifier and the one service; compose "up" is invoked only
\* after that, exactly once, with the compose files and the image prefix.
C7_EndToEnd ==
    \A n \in NetNames :
      EndToEnd(n) =>
        /\ Len(createCalls[n]) = 1
        /\ Len(removeCalls[n]) <= 1
        /\ VerifyReturned =>
             /\ Len(removeCalls[n]) = 1
             /\ removeCalls[n][1].networkID = createCalls[n][1].id
             /\ removeCalls[n][1].services = <<parseLog[1].services[1].Name>>
             /\ ~removeCalls[n][1].err
        /\ pc = "composeUp" => composeLog = <<>>
        /\ composeLog # <<>> => VerifyReturned /\ UpInvokedOnce

\* the end-to-end scenario ran to the end
C7_Witness ==
    /\ pc = "done"
    /\ \E n \in NetNames : EndToEnd(n) /\ Len(removeCalls[n]) = 1

\* C8: when a compose file fails to parse the process is dead and compose
\* "up" was never invoked.
C8_ParseErrorFatal ==
    ParseFailed =>
      /\ pc = "fatal"
      /\ composeLog = <<>>
      /\ parseLog[Len(parseLog)].err
      /\ ~RemoveCalled

\* the second compose file of a project failed to parse
C8_Witness ==
    /\ Len(parseLog) = 2
    /\ ~parseLog[1].err
    /\ parseLog[2].err

\* C9: no call is repeated: at most one login per registry entry, one
\* existence query and one creation per declared network, one parse per
\* compose-file entry, one removal check per network, one compose "up";
\* and a run that reaches the end made exactly one login per registry, one
\* query per declared network, one parse per compose file when networks are
\* declared, and one compose "up".
C9_NoRetry ==
    /\ Len(loginLog) <= Len(Regs)
    /\ \A i \in DOMAIN loginLog : loginLog[i].registry = i
    /\ \A n \in NetNames :
         /\ Len(queryCalls[n]) <= 1
         /\ Len(createCalls[n]) <= 1
         /\ Len(removeCalls[n]) <= 1
         /\ queryCalls[n] # <<>> => n \in Declared
    /\ Len(parseLog) <= Len(Files)
    /\ \A i \in DOMAIN parseLog : parseLog[i].file = Files[i]
    /\ Cardinality(UpCalls) <= 1
    /\ pc = "done" =>
         /\ Len(loginLog) = Len(Regs)
         /\ \A n \in Declared : Len(queryCalls[n]) = 1
         /\ Len(parseLog) = IF Declared = {} THEN 0 ELSE Len(Files)
         /\ Cardinality(UpCalls) = 1

\* a run with two registries, two declared networks and two compose files
\* reached the end
C9_Witness ==
    /\ pc = "done"
    /\ Len(loginLog) = 2
    /\ Cardinality(Declared) = 2
    /\ Len(parseLog) = 2

\* C10: the removal check is invoked at most once per network, only for a
\* declared network that some service of the project references, only after
\* every compose file has been parsed, with the network's current
\* identifier from the identity map and exactly the services recorded under
\* it; when verifyContainerConfig has returned it was invoked exactly once
\* for every declared network with a dependent service.
C10_RemovalCheck ==
    /\ \A n \in NetNames : \A i \in DOMAIN removeCalls[n] :
         /\ i = 1
         /\ n \in Declared
         /\ HasDependent(n)
         /\ removeCalls[n][i].parsed = Len(Files)
         /\ removeCalls[n][i].networkID = networkIDMap[n]
         /\ removeCalls[n][i].networkID = dockerNetworks[n]
         /\ removeCalls[n][i].networkID # NoID
         /\ removeCalls[n][i].services = Dependents(n)
         /\ removeCalls[n][i].services # <<>>
    /\ (VerifyReturned /\ Declared # {}) =>
         \A n \in Declared : HasDependent(n) => Len(removeCalls[n]) = 1

\* two declared networks, one created in this run and referenced, the other
\* referenced by no service: the check ran for the first only
C10_Witness ==
    /\ VerifyReturned
    /\ \E n, m \in Declared :
         /\ Len(removeCalls[n]) = 1 /\ createCalls[n] # <<>>
         /\ Len(removeCalls[n][1].services) = 2
         /\ ~HasDependent(m) /\ removeCalls[m] = <<>>

====
